---------------------------- MODULE Spec2Model ----------------------------
(***************************************************************************)
(* The Cube widget of cubed_portfolio: a CSS cube that rotates on its own  *)
(* (Auto), is frozen and turned by arrow keys / pointer-enter (Manual) and *)
(* resumes Auto one second after the last interaction.                     *)
(*                                                                         *)
(* The module models both components of Cube.jsx: the wobble variant       *)
(* (lines 1-187, the same code as unnamed/part_000) and the simple variant *)
(* (lines 189-312).                                                        *)
(*                                                                         *)
(* React semantics used (React 18 root, automatic batching): all setState  *)
(* calls of one handler / timer callback / animation-frame callback are    *)
(* batched into one render; the commit then runs, for every effect whose   *)
(* dependency array changed, first all cleanups in declaration order and   *)
(* then all effect bodies in declaration order.  One action of the model   *)
(* is one callback together with the commit it causes.                     *)
(*                                                                         *)
(* Units: time in ms, angles in hundredths of a degree (so that            *)
(* 0.02 deg/ms is the integer 2 and arithmetic is exact).                  *)
(***************************************************************************)
EXTENDS Integers, FiniteSets, Sequences, TLC

VARIABLES
    variant,                     \* "wobble" | "simple": which component is mounted
    now,                         \* performance.now() (ms)
    rotation,                    \* useState({x, y})
    isAutoRotating,              \* useState(true)
    lastInteraction,             \* useState(null)
    manualTransition,            \* useState(false)
    animationRef,                \* useRef(null): last requestAnimationFrame id
    lastTimeRef,                 \* useRef(null): previous frame timestamp
    manualTransitionTimeoutRef,  \* useRef(null): id of the 600 ms timeout
    phaseOffsetRef,              \* useRef(0)
    timeoutId,                   \* `let timeoutId` of the resume effect's last run
    frames,                      \* pending requestAnimationFrame requests
    timers,                      \* pending setTimeout timers
    keydownListener,             \* window has the component's keydown listener
    mounted,                     \* the component is mounted
    \* history variables (not program state)
    mountedAt,                   \* performance.now() at mount
    inputsUntil,                 \* the instant after which no input arrives
    keysPressed,                 \* number of keydown events so far
    lastEvent,                   \* the callback that made the last step
    lastKeyAt,                   \* time of the most recent keydown (Null: none)
    lastInputAt,                 \* time of the most recent effective interaction
    autoStartAt,                 \* time the current/last Auto run started
    runT0,                       \* timestamp of the first frame of the Auto run
    runY0,                       \* rotation.y at the first frame of the Auto run
    xPhase                       \* wobble phase (ms) at which rotation.x was computed

state == <<rotation, isAutoRotating, lastInteraction, manualTransition>>
refs  == <<animationRef, lastTimeRef, manualTransitionTimeoutRef, phaseOffsetRef,
           timeoutId, frames, timers, keydownListener>>
hist  == <<mountedAt, inputsUntil, keysPressed, lastEvent, lastKeyAt, lastInputAt,
           autoStartAt, runT0, runY0, xPhase>>
vars  == <<variant, now, mounted, state, refs, hist>>

---------------------------------------------------------------------------
\* Bounds of the model
MaxKeys == 2            \* keydown events per run
Horizon == 1200         \* inputs arrive within this many ms after mount
RunOn == 400            \* time the clock runs on after the last possible resume
Deltas == {200, 400}    \* clock advances between callbacks (ms)
MountTimes == {200, 12200}  \* performance.now() at mount
LiveHorizon == 400      \* Horizon of the specification with fairness
LiveMountTimes == {200}
Variants == {"wobble", "simple"}
Keys == {"ArrowLeft", "ArrowRight", "a"}

\* Program constants
Null == -1                          \* null / undefined
NaN == -1000000                     \* the float NaN
autoRotationTargetSpeed == 2        \* 0.02 deg/ms
autoRotationPeriod == 20000
Amplitude == 20                     \* the literal 20 in 20 * Math.cos(...)
ArrowStep == 4500                     \* 45 deg
ResumeDelay == 1000
TransitionDelay == 600
ResumeBaselineOffset == 50
InitialX == 2000                    \* x: 20
InitialY == 0

Truthy(v) == v # Null /\ v # 0 /\ v # NaN

\* Date.now(): epoch milliseconds, a positive number far from 0
EpochAtOrigin == 1000 * 1000 * 1000
DateNow == EpochAtOrigin + now

---------------------------------------------------------------------------
\* Math.cos / Math.acos, sampled at WobbleSamples points of the period
Cos100 == <<100, 95, 81, 59, 31, 0, -31, -59, -81, -95,
            -100, -95, -81, -59, -31, 0, 31, 59, 81, 95>>
WobbleSamples == Len(Cos100)

\* JavaScript's %: the result has the sign of the dividend
JsRem(a, m) == IF a >= 0 THEN a % m ELSE -((-a) % m)

Abs(a) == IF a >= 0 THEN a ELSE -a

\* Mutant of WobbleX: the amplitude taken for the 45 of the key step
WobbleX_WrongAmplitude(t, phaseOffset) ==
    IF phaseOffset = NaN THEN NaN
    ELSE LET r == JsRem(t - phaseOffset, autoRotationPeriod)
             i == (Abs(r) * WobbleSamples) \div autoRotationPeriod
         IN  45 * Cos100[i + 1]

\* 20 * Math.cos(2 * Math.PI * ((t - phaseOffset) % period) / period)
WobbleX(t, phaseOffset) ==
    IF phaseOffset = NaN THEN NaN
    ELSE LET r == JsRem(t - phaseOffset, autoRotationPeriod)
             i == (Abs(r) * WobbleSamples) \div autoRotationPeriod
         IN  Amplitude * Cos100[i + 1]

\* The wobble phase at time t: (t - phaseOffset) modulo the period, in ms,
\* and the sample of the period it falls in
PhaseOf(t, phaseOffset) ==
    IF phaseOffset = NaN THEN 0 ELSE (t - phaseOffset) % autoRotationPeriod

PhaseIdx(phase) == (phase * WobbleSamples) \div autoRotationPeriod

\* (Math.acos(frozenX / 20) * period) / (2 * Math.PI): the phase in ms, in [0, period/2]
AcosPhaseMs(frozenX) ==
    IF frozenX = NaN \/ frozenX > Amplitude * 100 \/ frozenX < -(Amplitude * 100)
    THEN NaN
    ELSE LET half == WobbleSamples \div 2
             k == CHOOSE j \in 0..half :
                     /\ Amplitude * Cos100[j + 1] >= frozenX
                     /\ \A l \in 0..half : Amplitude * Cos100[l + 1] >= frozenX => l <= j
         IN  (k * autoRotationPeriod) \div WobbleSamples

---------------------------------------------------------------------------
\* The mutable world outside React state, as one record
World == [animationRef |-> animationRef, lastTimeRef |-> lastTimeRef,
          manualTransitionTimeoutRef |-> manualTransitionTimeoutRef,
          phaseOffsetRef |-> phaseOffsetRef, timeoutId |-> timeoutId,
          frames |-> frames, timers |-> timers, keydownListener |-> keydownListener]

State == [rotation |-> rotation, isAutoRotating |-> isAutoRotating,
          lastInteraction |-> lastInteraction, manualTransition |-> manualTransition]

SetWorld(w) ==
    /\ animationRef' = w.animationRef
    /\ lastTimeRef' = w.lastTimeRef
    /\ manualTransitionTimeoutRef' = w.manualTransitionTimeoutRef
    /\ phaseOffsetRef' = w.phaseOffsetRef
    /\ timeoutId' = w.timeoutId
    /\ frames' = w.frames
    /\ timers' = w.timers
    /\ keydownListener' = w.keydownListener

SetState(s) ==
    /\ rotation' = s.rotation
    /\ isAutoRotating' = s.isAutoRotating
    /\ lastInteraction' = s.lastInteraction
    /\ manualTransition' = s.manualTransition

\* Browser handles: ids are fresh (never an id that is pending or still held)
FreshFrameId(w) ==
    LET used == {f.id : f \in w.frames} \cup {w.animationRef}
    IN  CHOOSE n \in 1..(Cardinality(used) + 1) : n \notin used

FreshTimerId(w) ==
    LET used == {t.id : t \in w.timers} \cup {w.timeoutId, w.manualTransitionTimeoutRef}
    IN  CHOOSE n \in 1..(Cardinality(used) + 1) : n \notin used

\* requestAnimationFrame(autoRotate); the closure autoRotate carries isAutoRotating
RequestAnimationFrame(w, closureAuto) ==
    LET id == FreshFrameId(w)
    IN  [w EXCEPT !.animationRef = id,
                  !.frames = @ \cup {[id |-> id, at |-> now, isAutoRotating |-> closureAuto]}]

CancelAnimationFrame(w, id) == [w EXCEPT !.frames = {f \in @ : f.id # id}]

ClearTimeout(w, id) == [w EXCEPT !.timers = {t \in @ : t.id # id}]

---------------------------------------------------------------------------
\* Mutant of AutoEffectCleanup: the pending frame is not cancelled
AutoEffectCleanup_NoCancel(w) == w

\* Effect 1: auto-rotation, deps [isAutoRotating]
AutoEffectCleanup(w) ==
    IF Truthy(w.animationRef) THEN CancelAnimationFrame(w, w.animationRef) ELSE w

\* Mutant of AutoEffectSetup: lastTimeRef is not reset when Auto starts
AutoEffectSetup_NoReset(s, w) ==
    IF s.isAutoRotating THEN RequestAnimationFrame(w, s.isAutoRotating) ELSE w

AutoEffectSetup(s, w) ==
    IF s.isAutoRotating
    THEN RequestAnimationFrame([w EXCEPT !.lastTimeRef = Null], s.isAutoRotating)
    ELSE w

\* Effect 2: resume, deps [isAutoRotating, lastInteraction, rotation.x]
\* (simple variant: [isAutoRotating, lastInteraction])
\* Mutant of ResumeEffectCleanup: the pending resume timeout is not cleared
ResumeEffectCleanup_NoClear(w) == w

ResumeEffectCleanup(w) ==
    IF Truthy(w.timeoutId) THEN ClearTimeout(w, w.timeoutId) ELSE w

\* Mutant of ResumeEffectSetup: the guard tests isAutoRotating, not its negation
ResumeEffectSetup_WrongGuard(s, w) ==
    IF s.isAutoRotating /\ Truthy(s.lastInteraction)
    THEN LET id == FreshTimerId(w)
         IN  [w EXCEPT !.timeoutId = id,
                       !.timers = @ \cup {[id |-> id, kind |-> "resume",
                                           due |-> now + ResumeDelay,
                                           frozenX |-> s.rotation.x]}]
    ELSE [w EXCEPT !.timeoutId = Null]

ResumeEffectSetup(s, w) ==
    IF ~s.isAutoRotating /\ Truthy(s.lastInteraction)
    THEN LET id == FreshTimerId(w)
         IN  [w EXCEPT !.timeoutId = id,
                       !.timers = @ \cup {[id |-> id, kind |-> "resume",
                                           due |-> now + ResumeDelay,
                                           frozenX |-> s.rotation.x]}]
    ELSE [w EXCEPT !.timeoutId = Null]

\* Mutant of ResumeDepsChanged: lastInteraction is missing from the deps
ResumeDepsChanged_NoTimestamp(old, new) ==
    \/ old.isAutoRotating # new.isAutoRotating
    \/ variant = "wobble" /\ old.rotation.x # new.rotation.x

ResumeDepsChanged(old, new) ==
    \/ old.isAutoRotating # new.isAutoRotating
    \/ old.lastInteraction # new.lastInteraction
    \/ variant = "wobble" /\ old.rotation.x # new.rotation.x

\* Effect 3: keydown listener, deps [isAutoRotating]
\* Mutant of KeyEffectCleanup: the listener is removed, the timeout is not cleared
KeyEffectCleanup_NoClear(w) == [w EXCEPT !.keydownListener = FALSE]

KeyEffectCleanup(w) ==
    LET w1 == [w EXCEPT !.keydownListener = FALSE]
    IN  IF Truthy(w1.manualTransitionTimeoutRef)
        THEN ClearTimeout(w1, w1.manualTransitionTimeoutRef)
        ELSE w1

KeyEffectSetup(w) == [w EXCEPT !.keydownListener = TRUE]

ModeChanged(old, new) == old.isAutoRotating # new.isAutoRotating

\* The commit of a render: cleanups of the changed effects, then their bodies
Commit(old, new, w) ==
    LET c1 == IF ModeChanged(old, new) THEN AutoEffectCleanup(w) ELSE w
        c2 == IF ResumeDepsChanged(old, new) THEN ResumeEffectCleanup(c1) ELSE c1
        c3 == IF ModeChanged(old, new) THEN KeyEffectCleanup(c2) ELSE c2
        s1 == IF ModeChanged(old, new) THEN AutoEffectSetup(new, c3) ELSE c3
        s2 == IF ResumeDepsChanged(old, new) THEN ResumeEffectSetup(new, s1) ELSE s1
        s3 == IF ModeChanged(old, new) THEN KeyEffectSetup(s2) ELSE s2
    IN  s3

\* The mount: the first render runs every effect body
Mount(s, w) == KeyEffectSetup(ResumeEffectSetup(s, AutoEffectSetup(s, w)))

InitialState == [rotation |-> [x |-> InitialX, y |-> InitialY], isAutoRotating |-> TRUE,
                 lastInteraction |-> Null, manualTransition |-> FALSE]

InitialWorld == [animationRef |-> Null, lastTimeRef |-> Null,
                 manualTransitionTimeoutRef |-> Null, phaseOffsetRef |-> 0,
                 timeoutId |-> Null, frames |-> {}, timers |-> {},
                 keydownListener |-> FALSE]

InitWith(mounts, horizon) ==
    /\ variant \in Variants
    /\ now \in mounts
    /\ rotation = InitialState.rotation
    /\ isAutoRotating = InitialState.isAutoRotating
    /\ lastInteraction = InitialState.lastInteraction
    /\ manualTransition = InitialState.manualTransition
    /\ LET w == Mount(InitialState, InitialWorld)
       IN  /\ animationRef = w.animationRef
           /\ lastTimeRef = w.lastTimeRef
           /\ manualTransitionTimeoutRef = w.manualTransitionTimeoutRef
           /\ phaseOffsetRef = w.phaseOffsetRef
           /\ timeoutId = w.timeoutId
           /\ frames = w.frames
           /\ timers = w.timers
           /\ keydownListener = w.keydownListener
    /\ mounted = TRUE
    /\ mountedAt = now
    /\ inputsUntil = now + horizon
    /\ keysPressed = 0
    /\ lastEvent = "mount"
    /\ lastKeyAt = Null
    /\ lastInputAt = Null
    /\ autoStartAt = now
    /\ runT0 = Null
    /\ runY0 = Null
    /\ xPhase = 0

Init == InitWith(MountTimes, Horizon)

---------------------------------------------------------------------------
\* The clock: it advances by one of Deltas, never past a timer that is due,
\* and a due timer fires before the clock moves on.
MaxTime == inputsUntil + ResumeDelay + RunOn

Min(a, b) == IF a <= b THEN a ELSE b

NextDue(d) ==
    LET dues == {t.due : t \in timers}
    IN  IF dues = {} THEN now + d
        ELSE Min(now + d, CHOOSE m \in dues : \A o \in dues : m <= o)

\* After unmount the clock is followed only while a callback is still pending.
Tick ==
    /\ mounted \/ frames # {} \/ timers # {}
    /\ \A t \in timers : t.due > now
    /\ \E d \in Deltas :
         /\ NextDue(d) <= MaxTime
         /\ now' = NextDue(d)
    /\ UNCHANGED <<variant, mounted, state, refs, hist>>

InputsOpen == now <= inputsUntil

---------------------------------------------------------------------------
\* Mutant of AutoRotateState: the simple variant computes the wobble too
AutoRotateState_AlwaysWobble(s, w, time) ==
    IF w.lastTimeRef # Null
    THEN [s EXCEPT !.rotation =
            [y |-> s.rotation.y + autoRotationTargetSpeed * (time - w.lastTimeRef),
             x |-> WobbleX(time, w.phaseOffsetRef)]]
    ELSE s

\* autoRotate(time): the animation-frame callback.  A request made during one
\* frame (or at a commit) is served by a later frame, with a later timestamp.
AutoRotateState(s, w, time) ==
    IF w.lastTimeRef # Null
    THEN LET delta == time - w.lastTimeRef
         IN  IF variant = "wobble"
             THEN [s EXCEPT !.rotation =
                     [y |-> s.rotation.y + autoRotationTargetSpeed * delta,
                      x |-> WobbleX(time, w.phaseOffsetRef)]]
             ELSE [s EXCEPT !.rotation.y = @ + autoRotationTargetSpeed * delta]
    ELSE s

\* Mutant of AutoRotateWorld: lastTimeRef is set by the first frame only
AutoRotateWorld_KeepBaseline(w, f, time) ==
    LET w1 == IF w.lastTimeRef = Null THEN [w EXCEPT !.lastTimeRef = time] ELSE w
    IN  IF f.isAutoRotating THEN RequestAnimationFrame(w1, f.isAutoRotating) ELSE w1

AutoRotateWorld(w, f, time) ==
    LET w1 == [w EXCEPT !.lastTimeRef = time]
    IN  IF f.isAutoRotating THEN RequestAnimationFrame(w1, f.isAutoRotating) ELSE w1

Frame ==
    \E f \in frames :
      /\ f.at < now
      /\ LET w0 == [World EXCEPT !.frames = @ \ {f}]
             s1 == AutoRotateState(State, w0, now)
             w1 == AutoRotateWorld(w0, f, now)
         IN  /\ SetState(s1)
             /\ SetWorld(Commit(State, s1, w1))
      /\ lastEvent' = "frame"
      /\ runT0' = IF runT0 = Null THEN now ELSE runT0
      /\ runY0' = IF runT0 = Null THEN rotation.y ELSE runY0
      /\ xPhase' = IF variant = "wobble" /\ lastTimeRef # Null
                   THEN PhaseOf(now, phaseOffsetRef) ELSE xPhase
      /\ UNCHANGED <<variant, now, mounted, mountedAt, inputsUntil, keysPressed, lastKeyAt, lastInputAt,
                     autoStartAt>>

---------------------------------------------------------------------------
\* setTimeout(callback, delay)
SetTimeout(w, kind, delay, frozenX) ==
    [w EXCEPT !.timers = @ \cup {[id |-> FreshTimerId(w), kind |-> kind,
                                  due |-> now + delay, frozenX |-> frozenX]}]

\* handleKeyDown(e).  The listener is re-registered by its effect whenever
\* isAutoRotating changes, so its closure reads the current isAutoRotating.
\* Mutant of KeyDelta: the two arrows swapped
KeyDelta_Swapped(key) ==
    IF key = "ArrowLeft" THEN ArrowStep
    ELSE IF key = "ArrowRight" THEN -ArrowStep
    ELSE 0

KeyDelta(key) ==
    IF key = "ArrowLeft" THEN -ArrowStep
    ELSE IF key = "ArrowRight" THEN ArrowStep
    ELSE 0

\* Mutant of HandleKeyDownState: every key press also re-freezes X
HandleKeyDownState_Freeze(s, key) ==
    [s EXCEPT !.isAutoRotating = FALSE,
              !.lastInteraction = DateNow,
              !.manualTransition = TRUE,
              !.rotation = [x |-> IF variant = "wobble"
                                  THEN WobbleX(now, phaseOffsetRef) ELSE @.x,
                            y |-> @.y + KeyDelta(key)]]

HandleKeyDownState(s, key) ==
    [s EXCEPT !.isAutoRotating = FALSE,
              !.lastInteraction = DateNow,
              !.manualTransition = TRUE,
              !.rotation.y = @ + KeyDelta(key)]

\* Mutant of HandleKeyDownWorld: the pending 600 ms timeout is not cleared
HandleKeyDownWorld_NoClear(s, w) ==
    LET w1 == IF s.isAutoRotating /\ variant = "wobble" /\ Truthy(w.lastTimeRef)
              THEN [w EXCEPT !.phaseOffsetRef = w.lastTimeRef]
              ELSE w
        id == FreshTimerId(w1)
    IN  [SetTimeout(w1, "transition", TransitionDelay, Null)
            EXCEPT !.manualTransitionTimeoutRef = id]

HandleKeyDownWorld(s, w) ==
    LET w1 == IF s.isAutoRotating /\ variant = "wobble" /\ Truthy(w.lastTimeRef)
              THEN [w EXCEPT !.phaseOffsetRef = w.lastTimeRef]
              ELSE w
        w2 == IF Truthy(w1.manualTransitionTimeoutRef)
              THEN ClearTimeout(w1, w1.manualTransitionTimeoutRef)
              ELSE w1
        id == FreshTimerId(w2)
    IN  [SetTimeout(w2, "transition", TransitionDelay, Null)
            EXCEPT !.manualTransitionTimeoutRef = id]

KeyDown(key) ==
    /\ keydownListener
    /\ InputsOpen
    /\ keysPressed < MaxKeys
    /\ LET s1 == HandleKeyDownState(State, key)
           w1 == HandleKeyDownWorld(State, World)
       IN  /\ SetState(s1)
           /\ SetWorld(Commit(State, s1, w1))
    /\ keysPressed' = keysPressed + 1
    /\ lastEvent' = key
    /\ lastKeyAt' = now
    /\ lastInputAt' = now
    /\ UNCHANGED <<variant, now, mounted, mountedAt, inputsUntil, autoStartAt, runT0, runY0,
                   xPhase>>

\* freezeRotation() and handleMouseEnter()
\* Mutant of FreezeRotation: X is left at the last rendered value
FreezeRotation_LastRendered(s, w) == s

FreezeRotation(s, w) == [s EXCEPT !.rotation.x = WobbleX(now, w.phaseOffsetRef)]

\* Mutant of HandleMouseEnterState: the isAutoRotating guard is missing
HandleMouseEnterState_NoGuard(s, w) ==
    [(IF variant = "wobble" THEN FreezeRotation(s, w) ELSE s)
        EXCEPT !.isAutoRotating = FALSE,
               !.manualTransition = FALSE,
               !.lastInteraction = DateNow]

HandleMouseEnterState(s, w) ==
    IF s.isAutoRotating
    THEN [(IF variant = "wobble" THEN FreezeRotation(s, w) ELSE s)
            EXCEPT !.isAutoRotating = FALSE,
                   !.manualTransition = FALSE,
                   !.lastInteraction = DateNow]
    ELSE s

MouseEnter ==
    /\ mounted
    /\ InputsOpen
    /\ LET s1 == HandleMouseEnterState(State, World)
       IN  /\ SetState(s1)
           /\ SetWorld(Commit(State, s1, World))
    /\ lastEvent' = "mouseenter"
    /\ lastInputAt' = IF isAutoRotating THEN now ELSE lastInputAt
    /\ xPhase' = IF variant = "wobble" /\ isAutoRotating
                 THEN PhaseOf(now, phaseOffsetRef) ELSE xPhase
    /\ UNCHANGED <<variant, now, mounted, mountedAt, inputsUntil, keysPressed, lastKeyAt, autoStartAt,
                   runT0, runY0>>

\* The callback of the resume timeout (1000 ms)
Sub(a, b) == IF a = NaN \/ b = NaN THEN NaN ELSE a - b

ResumeCallbackState(s) ==
    IF variant = "wobble"
    THEN [s EXCEPT !.manualTransition = FALSE, !.isAutoRotating = TRUE]
    ELSE [s EXCEPT !.isAutoRotating = TRUE]

\* Mutant of ResumeCallbackWorld: the recovered phase is not subtracted
ResumeCallbackWorld_NoPhase(w, t) ==
    IF variant = "wobble"
    THEN [w EXCEPT !.phaseOffsetRef = now,
                   !.lastTimeRef = now - ResumeBaselineOffset]
    ELSE w

ResumeCallbackWorld(w, t) ==
    IF variant = "wobble"
    THEN [w EXCEPT !.phaseOffsetRef = Sub(now, AcosPhaseMs(t.frozenX)),
                   !.lastTimeRef = now - ResumeBaselineOffset]
    ELSE w

ResumeFire ==
    \E t \in timers :
      /\ t.kind = "resume"
      /\ t.due <= now
      /\ LET w0 == [World EXCEPT !.timers = @ \ {t}]
             s1 == ResumeCallbackState(State)
             w1 == ResumeCallbackWorld(w0, t)
         IN  /\ SetState(s1)
             /\ SetWorld(Commit(State, s1, w1))
      /\ lastEvent' = "resume"
      /\ autoStartAt' = now
      /\ runT0' = Null
      /\ runY0' = Null
      /\ UNCHANGED <<variant, now, mounted, mountedAt, inputsUntil, keysPressed, lastKeyAt,
                     lastInputAt, xPhase>>

\* The callback of the transition timeout (600 ms)
TransitionCallbackState(s) == [s EXCEPT !.manualTransition = FALSE]

TransitionCallbackWorld(w) == [w EXCEPT !.manualTransitionTimeoutRef = Null]

TransitionFire ==
    \E t \in timers :
      /\ t.kind = "transition"
      /\ t.due <= now
      /\ LET w0 == [World EXCEPT !.timers = @ \ {t}]
             s1 == TransitionCallbackState(State)
             w1 == TransitionCallbackWorld(w0)
         IN  /\ SetState(s1)
             /\ SetWorld(Commit(State, s1, w1))
      /\ lastEvent' = "transition"
      /\ UNCHANGED <<variant, now, mounted, mountedAt, inputsUntil, keysPressed, lastKeyAt, lastInputAt,
                     autoStartAt, runT0, runY0, xPhase>>

KeyPress == \E key \in Keys : KeyDown(key)

\* Unmount: React runs the cleanup of every effect, in declaration order
UnmountWorld(w) == KeyEffectCleanup(ResumeEffectCleanup(AutoEffectCleanup(w)))

Unmount ==
    /\ mounted
    /\ mounted' = FALSE
    /\ SetWorld(UnmountWorld(World))
    /\ lastEvent' = "unmount"
    /\ UNCHANGED <<variant, now, state, mountedAt, inputsUntil, keysPressed, lastKeyAt,
                   lastInputAt, autoStartAt, runT0, runY0, xPhase>>

\* The callbacks of the mounted component
WhileMounted ==
    \/ Tick
    \/ Frame
    \/ KeyPress
    \/ MouseEnter
    \/ ResumeFire
    \/ TransitionFire

Next ==
    \/ Tick
    \/ Frame
    \/ KeyPress
    \/ MouseEnter
    \/ ResumeFire
    \/ TransitionFire
    \/ Unmount

Spec == Init /\ [][Next]_vars

\* The browser's event loop: time passes and due timers fire.  Animation
\* frames and input are not forced.
EventLoop == Tick \/ ResumeFire \/ TransitionFire

LiveInit == InitWith(LiveMountTimes, LiveHorizon)

\* The component stays mounted and the event loop keeps running
FairSpec == LiveInit /\ [][WhileMounted]_vars /\ WF_vars(EventLoop)

---------------------------------------------------------------------------
\* Properties

ResumeTimers == {t \in timers : t.kind = "resume"}
TransitionTimers == {t \in timers : t.kind = "transition"}

\* A step made by the named callback (clock steps leave lastEvent alone)
KeyDownStep == keysPressed' = keysPressed + 1
FrameStep == lastEvent' = "frame" /\ frames' # frames
ResumeStep == lastEvent' = "resume" /\ ResumeTimers' # ResumeTimers
TransitionStep == lastEvent' = "transition" /\ TransitionTimers' # TransitionTimers

\* C1: Manual is never a stuck state: once input has stopped and the event
\* loop keeps running, every Manual state is followed by an Auto state, and
\* the switch back to Auto happens 1000 ms after the most recent interaction.
C1_ManualReturnsToAuto ==
    /\ (~isAutoRotating) ~> isAutoRotating
    /\ [][(~isAutoRotating /\ isAutoRotating') => now = lastInputAt + ResumeDelay]_vars

C1_Witness ==
    /\ lastEvent = "resume"
    /\ isAutoRotating
    /\ keysPressed >= 1
    /\ now = lastInputAt + ResumeDelay

\* C2: the manual-transition flag is true for exactly 600 ms after the most
\* recent key event: true while less than 600 ms have passed since the last
\* key press, false once more than 600 ms have passed (and before any press),
\* with at most one 600 ms timer pending.
C2_FlagTrueFor600msAfterLastKey ==
    mounted =>
      /\ (lastKeyAt # Null /\ now < lastKeyAt + TransitionDelay) => manualTransition
      /\ (lastKeyAt = Null \/ now > lastKeyAt + TransitionDelay) => ~manualTransition
      /\ Cardinality(TransitionTimers) <= 1

\* C3: every key press refreshes the interaction timestamp and restarts the
\* 1000 ms resume timer: for 1000 ms after the most recent key press Mode is
\* Manual and the pending resume timer is due no earlier than 1000 ms after
\* that press (while the widget is mounted).
C3_KeyPressRestartsResume ==
    (mounted /\ lastKeyAt # Null) =>
      /\ lastInteraction >= EpochAtOrigin + lastKeyAt
      /\ now < lastKeyAt + ResumeDelay =>
           /\ ~isAutoRotating
           /\ ResumeTimers # {}
           /\ \A t \in ResumeTimers : t.due >= lastKeyAt + ResumeDelay

C3_Witness ==
    /\ ~isAutoRotating
    /\ keysPressed = 2
    /\ lastInputAt = lastKeyAt
    /\ now = lastKeyAt + 800
    /\ now > mountedAt + ResumeDelay + 200

\* C4: in every reachable state in which Mode is Auto the manual-transition
\* flag is false (the rendered transition is 'none' during auto rotation).
C4_AutoImpliesNoTransition == (mounted /\ isAutoRotating) => ~manualTransition

\* C5: ArrowRight adds exactly 45 degrees to Y and ArrowLeft subtracts 45, in
\* Auto and in Manual; the key press leaves X alone; and while Mode is Manual
\* nothing but a key press changes Y.
C5_ArrowKeysTurnBy45 ==
    [][ /\ (KeyDownStep /\ lastEvent' = "ArrowRight") =>
             rotation' = [x |-> rotation.x, y |-> rotation.y + 4500]
        /\ (KeyDownStep /\ lastEvent' = "ArrowLeft") =>
             rotation' = [x |-> rotation.x, y |-> rotation.y - 4500]
        /\ (~isAutoRotating /\ ~KeyDownStep) => rotation'.y = rotation.y
      ]_vars

C5_Witness ==
    /\ lastEvent = "ArrowLeft"
    /\ keysPressed = 2
    /\ ~isAutoRotating
    /\ rotation.y < 0

\* C6: at most one animation-frame request is pending, none is pending while
\* Mode is Manual, and no animation frame runs while Mode is Manual.
C6_OneAnimationLoop ==
    /\ Cardinality(frames) <= 1
    /\ ~isAutoRotating => frames = {}
    /\ lastEvent = "frame" => isAutoRotating

C6_Witness ==
    /\ lastEvent = "frame"
    /\ autoStartAt > mountedAt
    /\ Cardinality(frames) = 1
    /\ lastTimeRef > autoStartAt

\* C7: at most one resume timer and at most one transition-clear timer is
\* pending, and the two are independent: the firing of one leaves the other
\* pending timer as it was, and a pointer-enter (which arms only the resume
\* timer) leaves the transition-clear timer as it was.
C7_TimersSingleAndIndependent ==
    /\ [](Cardinality(ResumeTimers) <= 1 /\ Cardinality(TransitionTimers) <= 1)
    /\ [][ /\ TransitionStep => ResumeTimers' = ResumeTimers
           /\ ResumeStep => TransitionTimers' = TransitionTimers
           /\ lastEvent' = "mouseenter" => TransitionTimers' = TransitionTimers
         ]_vars

C7_Witness ==
    /\ lastEvent = "transition"
    /\ keysPressed = 2
    /\ Cardinality(ResumeTimers) = 1
    /\ TransitionTimers = {}

\* C8: during an uninterrupted Auto run, Y equals Y at the run's first frame
\* plus 0.02 deg/ms times the time between the first and the latest frame
\* (the sum of the frame deltas).
C8_YIsSpeedTimesElapsed ==
    (isAutoRotating /\ runT0 # Null) =>
        rotation.y = runY0 + autoRotationTargetSpeed * (lastTimeRef - runT0)

C8_Witness ==
    /\ isAutoRotating
    /\ lastEvent = "frame"
    /\ runT0 # Null
    /\ lastTimeRef = runT0 + 1000
    /\ rotation.y = runY0 + 2000

C10_WobbleXBounded ==
    variant = "wobble" =>
      /\ rotation.x \in (-(Amplitude * 100))..(Amplitude * 100)
      /\ phaseOffsetRef # NaN
      /\ \A t \in ResumeTimers : AcosPhaseMs(t.frozenX) # NaN

C10_Witness ==
    /\ variant = "wobble"
    /\ lastEvent = "resume"
    /\ rotation.x < 0
    /\ phaseOffsetRef = now - AcosPhaseMs(rotation.x)

\* A pointer-enter that found Mode Auto
AutoMouseEnterStep == isAutoRotating /\ ~isAutoRotating' /\ lastEvent' = "mouseenter"

\* A keydown of ArrowLeft or ArrowRight
ArrowKeyStep == KeyDownStep /\ lastEvent' \in {"ArrowLeft", "ArrowRight"}

\* C11 (as claimed): in the wobble variant an arrow key or a pointer-enter that
\* arrives in Auto sets X to the wobble value at the instant of the event,
\* switches to Manual and records the interaction timestamp.
C11_InputFreezesXAtInstant ==
    [][ (variant = "wobble" /\ isAutoRotating /\ (ArrowKeyStep \/ AutoMouseEnterStep)) =>
            /\ rotation'.x = WobbleX(now, phaseOffsetRef)
            /\ ~isAutoRotating'
            /\ lastInteraction' = EpochAtOrigin + now
      ]_vars

\* C11 (amended): in the wobble variant a pointer-enter in Auto sets X to the
\* wobble value at the instant of the event, a key press in Auto leaves X at
\* the last rendered value; both switch to Manual and record the timestamp.
C11_PointerFreezesKeyKeepsX ==
    [][ variant = "wobble" =>
          /\ AutoMouseEnterStep =>
               /\ rotation'.x = WobbleX(now, phaseOffsetRef)
               /\ rotation'.y = rotation.y
               /\ lastInteraction' = EpochAtOrigin + now
          /\ (isAutoRotating /\ KeyDownStep) =>
               /\ rotation'.x = rotation.x
               /\ ~isAutoRotating'
               /\ lastInteraction' = EpochAtOrigin + now
      ]_vars

C11_Witness ==
    /\ variant = "wobble"
    /\ lastEvent = "mouseenter"
    /\ ~isAutoRotating
    /\ lastInputAt = now
    /\ lastTimeRef # Null
    /\ rotation.x = WobbleX(now, phaseOffsetRef)
    /\ rotation.x # WobbleX(lastTimeRef, phaseOffsetRef)

\* C12: after unmount nothing of the widget is pending: no animation-frame
\* request, no resume timer, no transition-clear timer and no keydown
\* listener; and no step changes the widget's state after unmount.
C12_NothingPendingAfterUnmount ==
    /\ [](~mounted => (frames = {} /\ timers = {} /\ ~keydownListener))
    /\ [][~mounted => UNCHANGED <<state, refs>>]_vars

C12_Witness ==
    /\ ~mounted
    /\ ~isAutoRotating
    /\ manualTransition
    /\ keysPressed = 2
    /\ lastKeyAt = now
    /\ now > mountedAt
    /\ Truthy(timeoutId)
    /\ Truthy(manualTransitionTimeoutRef)

\* The state right after the resume callback of the wobble variant
JustResumed ==
    /\ variant = "wobble"
    /\ mounted
    /\ lastEvent = "resume"
    /\ now = autoStartAt

\* C13: the wobble resumes with the phase it had when X was frozen: right
\* after resume, the phase implied by the recomputed phaseOffset equals the
\* phase at which the frozen X was computed, modulo the period.
C13_ResumeKeepsPhase ==
    JustResumed => PhaseIdx(PhaseOf(now, phaseOffsetRef)) = PhaseIdx(xPhase)

\* C14: X does not jump on resume: right after the resume callback, the
\* wobble value at the resume time under the recomputed phaseOffset equals
\* the frozen X.
C14_NoJumpOnResume ==
    JustResumed => WobbleX(now, phaseOffsetRef) = rotation.x

C14_Witness ==
    /\ JustResumed
    /\ rotation.x < 0
    /\ rotation.x # -(Amplitude * 100)
    /\ xPhase > autoRotationPeriod \div 2
    /\ keysPressed >= 1

\* C15: when the resume timer fires, the previous-frame timestamp is
\* (current time - 50 ms) once the resume step is over, so that the first
\* frame after resumption computes its delta from that baseline.
C15_ResumeBaselineIsNowMinus50 ==
    JustResumed => lastTimeRef = now - ResumeBaselineOffset

\* C16: X is constant throughout each Manual period: no step that starts and
\* ends in Manual changes X, and a key press in Manual leaves the animation
\* state (phaseOffset, previous-frame timestamp, frame requests) alone.
C16_XConstantInManual ==
    [][ /\ (~isAutoRotating /\ ~isAutoRotating') => rotation'.x = rotation.x
        /\ (~isAutoRotating /\ KeyDownStep) =>
             /\ ~isAutoRotating'
             /\ phaseOffsetRef' = phaseOffsetRef
             /\ lastTimeRef' = lastTimeRef
             /\ frames' = frames
      ]_vars

C16_Witness ==
    /\ variant = "wobble"
    /\ mounted
    /\ ~isAutoRotating
    /\ lastEvent = "transition"
    /\ keysPressed = 2
    /\ rotation.x # InitialX
    /\ rotation.x # WobbleX(now, phaseOffsetRef)

\* C17: whenever Mode is Manual (and the widget is mounted) the interaction
\* timestamp is non-null and exactly one resume timer is pending; Mode becomes
\* Manual only by a key press or a pointer-enter, and Auto again only by the
\* firing of the resume timer.
C17_ManualHasOneResumeTimer ==
    /\ []((mounted /\ ~isAutoRotating) =>
            (lastInteraction # Null /\ Cardinality(ResumeTimers) = 1))
    /\ [][ /\ (isAutoRotating /\ ~isAutoRotating') =>
                (KeyDownStep \/ lastEvent' = "mouseenter")
           /\ (~isAutoRotating /\ isAutoRotating') => ResumeStep
         ]_vars

C17_Witness ==
    /\ mounted
    /\ ~isAutoRotating
    /\ keysPressed = 2
    /\ autoStartAt > mountedAt
    /\ lastInteraction = EpochAtOrigin + lastKeyAt
    /\ \E t \in ResumeTimers : t.due = lastKeyAt + ResumeDelay /\ t.due < now + ResumeDelay

\* C18: a pointer-enter in Auto switches to Manual with the manual-transition
\* flag false and Y unchanged; a pointer-enter in Manual changes nothing:
\* orientation, flag, timestamp, refs and both timers stay as they were.
C18_PointerEnterOnlyActsInAuto ==
    [][ /\ (isAutoRotating /\ lastEvent' = "mouseenter") =>
             /\ ~isAutoRotating'
             /\ ~manualTransition'
             /\ rotation'.y = rotation.y
        /\ (~isAutoRotating /\ lastEvent' = "mouseenter") => UNCHANGED <<state, refs>>
      ]_vars

C18_Witness ==
    /\ mounted
    /\ lastEvent = "mouseenter"
    /\ ~isAutoRotating
    /\ manualTransition
    /\ lastInputAt = lastKeyAt
    /\ now > lastKeyAt
    /\ \E t \in ResumeTimers : t.due = lastKeyAt + ResumeDelay

\* C19: a keydown of a key other than the arrows leaves X and Y unchanged and
\* otherwise acts like an arrow key: Mode is Manual after it, the
\* manual-transition flag is set, the interaction timestamp is refreshed, and
\* the 1000 ms and the 600 ms timers are armed anew.
C19_OtherKeyActsLikeArrow ==
    [][ (KeyDownStep /\ lastEvent' = "a") =>
          /\ rotation' = rotation
          /\ ~isAutoRotating'
          /\ manualTransition'
          /\ lastInteraction' = EpochAtOrigin + now
          /\ \E t \in ResumeTimers' : t.due = now + ResumeDelay
          /\ \E t \in TransitionTimers' : t.due = now + TransitionDelay
      ]_vars

\* C20: in the simple variant X is 20 degrees in every reachable state; no
\* frame, key press, pointer-enter or timer firing changes it.
C20_SimpleXFixed ==
    variant = "simple" => rotation.x = InitialX

C20_Witness ==
    /\ variant = "simple"
    /\ mounted
    /\ lastEvent = "frame"
    /\ keysPressed = MaxKeys
    /\ autoStartAt > mountedAt
    /\ rotation.y # InitialY
    /\ rotation.x = InitialX

====
